---- MODULE Spec2Model ----
(***************************************************************************)
(* SevaLink: request lifecycle and single-acceptor matching.               *)
(*                                                                         *)
(* Model of the request routes of src/server/routes/requests.js (the       *)
(* first router of the file, lines 1-764).  Every route handler is an      *)
(* async function: it runs up to an `await` on the Request Store, is       *)
(* suspended, and continues later.  Handlers of different HTTP calls       *)
(* interleave at these suspension points.  A handler that reads a document *)
(* (findById) and later writes it (save, findByIdAndDelete) is modelled by *)
(* two steps: the read step runs the synchronous checks of the handler on  *)
(* the document as stored at that moment; the write step applies the write *)
(* to the store as it is at that later moment.  Between the two the call   *)
(* keeps what its write will send: the caller, the target id and the       *)
(* assigned paths.                                                         *)
(*                                                                         *)
(* Document.save() of a document loaded from the store sends only the      *)
(* modified paths (updateOne on _id with $set / $push); it does not        *)
(* compare the rest of the document with what was read, and it fails with  *)
(* DocumentNotFoundError when no document has that _id any more.           *)
(***************************************************************************)
EXTENDS Integers, Sequences, FiniteSets, TLC

\* ------------------------------------------------------------------ bounds

\* Number of HTTP calls (volunteer / update / delete) issued in one behaviour.
MaxCalls == 2
\* Number of requests created in one behaviour.
MaxRequests == 1

\* ------------------------------------------------------------------ domains

\* Identities issued by the auth middleware (req.user.userId).
Users == {"u1", "u2", "u3"}

\* body('type').isIn([...])
Types == {"blood", "elder_support", "complaint"}

\* Status values a request can carry.
Statuses == {"pending", "accepted", "in_progress", "resolved", "completed", "cancelled"}

\* Status values written by the workflow outside the request routes.
DownstreamStatuses == {"in_progress", "resolved", "completed", "cancelled"}

\* Values of the `name` field of request bodies.
Names == {"n1", "n2"}

\* Values of `name` in the create bodies of a behaviour; updates draw from Names.
CreateNames == {"n1"}

\* Absence of a phone number (undefined / empty string, both falsy).
NoPhone == "none"

\* User directory: the profile read by User.findById and by populate(). u1
\* files requests under the name of the profile (CreateNames), the others
\* under a name that is not theirs.
userDir == [u \in Users |-> [phone |-> IF u = "u3" THEN NoPhone ELSE "p_" \o u,
                             name  |-> IF u = "u1" THEN "n1" ELSE "name_" \o u,
                             email |-> "mail_" \o u,
                             role  |-> IF u = "u1" THEN "citizen"
                                       ELSE IF u = "u2" THEN "volunteer" ELSE "admin"]]

\* Phone values a create body can carry (optional field).
BodyPhones == {NoPhone, "p_body"}

\* Values of `phone` in the create bodies of a behaviour: the field is left
\* out, so that the profile phone decides.
CreatePhones == {NoPhone}

RequestIds == 1..MaxRequests
CallIds == 1..MaxCalls

\* Result of findById when no document has the id (null).
Null == [exists |-> FALSE]

\* Outcome of a handler, by the response it sends.
\*   Success            2xx
\*   NotFound           404 'Request not found'
\*   WrongType          400 'Can only volunteer for blood requests'
\*   SelfAcceptance     400 'Cannot volunteer for your own request'
\*   VolunteerNotFound  404 'Volunteer not found'
\*   AlreadyAccepted    400 'This blood request has already been accepted by another donor'
\*   AlreadyVolunteered 400 'You have already volunteered for this request'
\*   Forbidden          403 'Access denied. ...'
\*   NotPending         400 'Cannot update request that is no longer pending'
\*   ServerError        500 (the catch block of the handler)
\*   PhoneRequired      400 error: 'PHONE_REQUIRED'
\*   NotAccepted        400 'Contact details only available for accepted requests'
Results == {"Success", "NotFound", "WrongType", "SelfAcceptance", "VolunteerNotFound",
            "AlreadyAccepted", "AlreadyVolunteered", "Forbidden", "NotPending",
            "ServerError", "PhoneRequired", "NotAccepted"}

\* The type-specific fields of each request type (POST / "Add type-specific
\* fields", PUT /:id typeSpecificUpdates).
TypeFields(type) ==
  IF type = "blood" THEN {"bloodType", "urgencyLevel"}
  ELSE IF type = "elder_support" THEN {"serviceType", "dueDate"}
  ELSE IF type = "complaint" THEN {"title", "description", "category"}
  ELSE {}

AllTypeFields == UNION {TypeFields(t) : t \in Types}

\* The rest of a create body: location, which the validators require, the
\* type-specific fields of the type, which they require too, and any fields
\* of the other types, which they let through (.if(body('type').equals(...))).
ValidPayloads(type) ==
  {[f \in S \cup TypeFields(type) \cup {"location"} |-> "v1"] : S \in SUBSET AllTypeFields}

\* The create bodies of the request routes' specifications: the fields of
\* the type and no others.
CreatePayloads(type) == {[f \in TypeFields(type) \cup {"location"} |-> "v1"]}

\* Fields an update body may carry in the request routes' specifications:
\* one allowed field and fields that are on no allow-list.
BodyFields == {"name", "status", "type", "user"}

\* Values an update body can give to a field.
BodyValues(f) ==
  IF f = "name" THEN Names
  ELSE IF f = "status" THEN {"resolved"}
  ELSE IF f = "type" THEN {"complaint"}
  ELSE IF f = "user" THEN {"u3"}
  ELSE IF f = "phone" THEN {"p_body"}
  ELSE IF f = "contactInfo" THEN {"c1"}
  ELSE {"v2"}

AllBodyValues == Names \cup {"resolved", "complaint", "u3", "p_body", "c1", "v2"}

\* The request bodies over a set of fields: any values.
BodiesOver(S) == {b \in [S -> AllBodyValues] : \A f \in S : b[f] \in BodyValues(f)}

\* All request bodies of PUT /:id: any subset of the fields, any values.
UpdateBodies == UNION {BodiesOver(S) : S \in SUBSET BodyFields}

\* Fields an update body may carry in the specification of the payloads.
WideBodyFields ==
  BodyFields \cup {"location", "contactInfo", "phone", "unknownField"} \cup AllTypeFields

\* Largest number of fields of such a body.
MaxBodyFields == 2

WideUpdateBodies ==
  UNION {BodiesOver(S) : S \in {T \in SUBSET WideBodyFields : Cardinality(T) <= MaxBodyFields}}

\* ------------------------------------------------------------------ state

VARIABLES
  store,    \* Request Store: request id -> document, for the documents that exist
  nextId,   \* next request id to assign (ids are never reused)
  calls,    \* the HTTP calls: call id -> op, caller, target, pending $set, position, result
  posted,   \* the last POST / whose response is on record: caller, body, response
  listed    \* the last GET / whose response is on record: caller, query, response

vars == <<store, nextId, calls, posted, listed>>

\* No GET / on record.
NoList == [user |-> "none"]

\* No POST / on record.
NoPost == [user |-> "none", type |-> "none", phone |-> NoPhone, rid |-> 0, res |-> "none"]

\* A call that has not been issued yet.
Idle == [op |-> "none", user |-> "none", rid |-> 0, upd |-> <<>>,
         pc |-> "idle", res |-> "none"]

Init ==
  /\ store = <<>>
  /\ nextId = 1
  /\ calls = [c \in CallIds |-> Idle]
  /\ posted = NoPost
  /\ listed = NoList

\* Request.findById(id): the stored document, or null.
FindById(rid) == IF rid \in DOMAIN store THEN store[rid] ELSE Null

\* Calls are issued in the order of their ids.
CanIssue(c) ==
  /\ calls[c].pc = "idle"
  /\ IF c = 1 THEN TRUE ELSE calls[c - 1].pc # "idle"

\* ------------------------------------------------------------------ create

\* Values the Request schema gives to the paths a new document does not set.
SchemaDefaults == [status |-> "pending", accepters |-> <<>>]

\* Variant of PhoneNumber that prefers the profile phone.
PhoneNumber_ProfileFirst(userId, bodyPhone) ==
  IF userDir[userId].phone # NoPhone THEN userDir[userId].phone ELSE bodyPhone

\* const phoneNumber = req.body.phone || user.phone
PhoneNumber(userId, bodyPhone) ==
  IF bodyPhone # NoPhone THEN bodyPhone ELSE userDir[userId].phone

\* Variant of TypeSpecificData that copies every type-specific field of the body.
TypeSpecificData_WholePayload(type, payload) ==
  [f \in DOMAIN payload \ {"location"} |-> payload[f]]

\* The fields POST / adds for the type of the request, from the body.
TypeSpecificData(type, payload) ==
  IF type = "blood"
  THEN [bloodType |-> payload.bloodType, urgencyLevel |-> payload.urgencyLevel,
        priority |-> payload.urgencyLevel]
  ELSE IF type = "elder_support"
  THEN [serviceType |-> payload.serviceType, dueDate |-> payload.dueDate]
  ELSE IF type = "complaint"
  THEN [title |-> payload.title, description |-> payload.description,
        category |-> payload.category, images |-> <<>>]
  ELSE <<>>

\* Variant of NewRequest that files blood requests as accepted.
NewRequest_BloodAccepted(userId, type, name, phoneNumber, payload) ==
  [exists |-> TRUE, type |-> type, user |-> userId, name |-> name,
   phone |-> phoneNumber, location |-> payload.location,
   status |-> IF type = "blood" THEN "accepted" ELSE "pending",
   accepters |-> <<>>] @@ TypeSpecificData(type, payload)

\* requestData of POST /, completed by the schema defaults.
NewRequest(userId, type, name, phoneNumber, payload) ==
  [exists |-> TRUE, type |-> type, user |-> userId, name |-> name,
   phone |-> phoneNumber, location |-> payload.location,
   status |-> SchemaDefaults.status,
   accepters |-> SchemaDefaults.accepters] @@ TypeSpecificData(type, payload)

\* POST /: the handler reads the caller's profile, which no route modifies,
\* and inserts a new document under a fresh id. Without a resolvable phone
\* it answers 400 PHONE_REQUIRED and inserts nothing.
Create(userId, type, name, bodyPhone, payload) ==
  /\ nextId <= MaxRequests
  /\ PhoneNumber(userId, bodyPhone) # NoPhone
  /\ store' = [r \in DOMAIN store \cup {nextId} |->
                 IF r = nextId
                 THEN NewRequest(userId, type, name, PhoneNumber(userId, bodyPhone),
                                 payload)
                 ELSE store[r]]
  /\ nextId' = nextId + 1
  /\ UNCHANGED calls

\* POST / with its response put on record: 201 with the created request, or
\* 400 PHONE_REQUIRED with nothing inserted.
Post(userId, type, name, bodyPhone, payload) ==
  IF PhoneNumber(userId, bodyPhone) = NoPhone
  THEN /\ nextId <= MaxRequests
       /\ posted' = [user |-> userId, type |-> type, phone |-> bodyPhone, rid |-> 0,
                     res |-> "PhoneRequired"]
       /\ UNCHANGED <<store, nextId, calls, listed>>
  ELSE /\ Create(userId, type, name, bodyPhone, payload)
       /\ posted' = [user |-> userId, type |-> type, phone |-> bodyPhone, rid |-> nextId,
                     res |-> "Success"]
       /\ UNCHANGED listed

\* ------------------------------------------------------------------ volunteer

\* Variants of VolunteerCheck, each with one slip in the sequence of checks.
VolunteerCheck_NoSelfCheck(doc, userId) ==
  IF doc = Null THEN "NotFound"
  ELSE IF doc.type # "blood" THEN "WrongType"
  ELSE IF Len(doc.accepters) > 0 THEN "AlreadyAccepted"
  ELSE "ok"

VolunteerCheck_AcceptedBeforeSelf(doc, userId) ==
  IF doc = Null THEN "NotFound"
  ELSE IF doc.type # "blood" THEN "WrongType"
  ELSE IF Len(doc.accepters) > 0 THEN "AlreadyAccepted"
  ELSE IF doc.user = userId THEN "SelfAcceptance"
  ELSE "ok"

VolunteerCheck_SelfBeforeType(doc, userId) ==
  IF doc = Null THEN "NotFound"
  ELSE IF doc.user = userId THEN "SelfAcceptance"
  ELSE IF doc.type # "blood" THEN "WrongType"
  ELSE IF Len(doc.accepters) > 0 THEN "AlreadyAccepted"
  ELSE "ok"

VolunteerCheck_NoAcceptedCheck(doc, userId) ==
  IF doc = Null THEN "NotFound"
  ELSE IF doc.type # "blood" THEN "WrongType"
  ELSE IF doc.user = userId THEN "SelfAcceptance"
  ELSE IF \E i \in 1..Len(doc.accepters) : doc.accepters[i].user = userId
       THEN "AlreadyVolunteered"
  ELSE "ok"

\* Variant of VolunteerCheck that looks for the caller among the accepters
\* before it tests whether there is any accepter.
VolunteerCheck_VolunteeredBeforeAccepted(doc, userId) ==
  IF doc = Null THEN "NotFound"
  ELSE IF doc.type # "blood" THEN "WrongType"
  ELSE IF doc.user = userId THEN "SelfAcceptance"
  ELSE IF userId \notin DOMAIN userDir THEN "VolunteerNotFound"
  ELSE IF \E i \in 1..Len(doc.accepters) : doc.accepters[i].user = userId
       THEN "AlreadyVolunteered"
  ELSE IF Len(doc.accepters) > 0 THEN "AlreadyAccepted"
  ELSE "ok"

\* The checks of POST /:id/volunteer on the document the handler has read,
\* in the order of the code: the first failing check decides the response;
\* "ok" when the handler goes on to push and save.
VolunteerCheck(doc, userId) ==
  IF doc = Null THEN "NotFound"
  ELSE IF doc.type # "blood" THEN "WrongType"
  ELSE IF doc.user = userId THEN "SelfAcceptance"
  ELSE IF userId \notin DOMAIN userDir THEN "VolunteerNotFound"
  ELSE IF Len(doc.accepters) > 0 THEN "AlreadyAccepted"
  ELSE IF \E i \in 1..Len(doc.accepters) : doc.accepters[i].user = userId
       THEN "AlreadyVolunteered"
  ELSE "ok"

\* The acceptance record pushed by the handler.
\* new Date() at the push; the clock is not modelled.
AcceptedAt == "now"

Acceptance(userId) == [user |-> userId, acceptedAt |-> AcceptedAt, status |-> "accepted"]

\* Variant of SaveVolunteer that writes the accepters array it holds (the one
\* read, plus its own record) over the stored one.
SaveVolunteer_OverwriteArray(cur, userId) ==
  [cur EXCEPT !.accepters = <<Acceptance(userId)>>, !.status = "accepted"]

\* Variant of SaveVolunteer that pushes the record without the status flip.
SaveVolunteer_PushOnly(cur, userId) ==
  [cur EXCEPT !.accepters = Append(@, Acceptance(userId))]

\* request.save() after accepters.push(...) and status = 'accepted': one
\* updateOne with $push on accepters and $set on status, applied to the
\* document as stored now.
SaveVolunteer(cur, userId) ==
  [cur EXCEPT !.accepters = Append(@, Acceptance(userId)), !.status = "accepted"]

\* Variant of VolunteerRead that pushes and saves before it tests whether the
\* request has an accepter.
VolunteerRead_SaveBeforeAccepterCheck(c, userId, rid) ==
  /\ CanIssue(c)
  /\ LET doc == FindById(rid)
         chk == VolunteerCheck(doc, userId)
     IN /\ calls' = [calls EXCEPT ![c] =
                       [op |-> "volunteer", user |-> userId, rid |-> rid,
                        upd |-> <<>>,
                        pc |-> IF chk = "ok" THEN "saving" ELSE "done",
                        res |-> IF chk = "ok" THEN "none" ELSE chk]]
        /\ store' = IF chk = "AlreadyAccepted"
                    THEN [store EXCEPT ![rid] = SaveVolunteer(@, userId)]
                    ELSE store
  /\ UNCHANGED <<nextId, posted, listed>>

\* Read step: findById, then the checks on what was read.
VolunteerRead(c, userId, rid) ==
  /\ CanIssue(c)
  /\ LET doc == FindById(rid)
         chk == VolunteerCheck(doc, userId)
     IN calls' = [calls EXCEPT ![c] =
                    [op |-> "volunteer", user |-> userId, rid |-> rid,
                     upd |-> <<>>,
                     pc |-> IF chk = "ok" THEN "saving" ELSE "done",
                     res |-> IF chk = "ok" THEN "none" ELSE chk]]
  /\ UNCHANGED <<store, nextId, posted, listed>>

\* Write step: await request.save(), then the success response; a save that
\* finds no document throws into the catch block (500).
VolunteerSave(c) ==
  /\ calls[c].op = "volunteer"
  /\ calls[c].pc = "saving"
  /\ IF calls[c].rid \in DOMAIN store
     THEN /\ store' = [store EXCEPT ![calls[c].rid] = SaveVolunteer(@, calls[c].user)]
          /\ calls' = [calls EXCEPT ![c].pc = "done", ![c].res = "Success"]
     ELSE /\ store' = store
          /\ calls' = [calls EXCEPT ![c].pc = "done", ![c].res = "ServerError"]
  /\ UNCHANGED <<nextId, posted, listed>>

\* ------------------------------------------------------------------ update

\* Variant of UpdateCheck that refuses accepted requests only.
UpdateCheck_AcceptedOnly(doc, userId) ==
  IF doc = Null THEN "NotFound"
  ELSE IF doc.user # userId THEN "Forbidden"
  ELSE IF doc.status = "accepted" THEN "NotPending"
  ELSE "ok"

\* Variant of UpdateCheck that tests the status before the owner.
UpdateCheck_StatusBeforeOwner(doc, userId) ==
  IF doc = Null THEN "NotFound"
  ELSE IF doc.status # "pending" THEN "NotPending"
  ELSE IF doc.user # userId THEN "Forbidden"
  ELSE "ok"

\* The checks of PUT /:id on the document read.
UpdateCheck(doc, userId) ==
  IF doc = Null THEN "NotFound"
  ELSE IF doc.user # userId THEN "Forbidden"
  ELSE IF doc.status # "pending" THEN "NotPending"
  ELSE "ok"

\* Variant of AllowedFields with type and user on the generic list.
AllowedFields_TypeAndUser(type) ==
  {"name", "location", "contactInfo", "type", "user"} \cup
  (IF type = "blood" THEN {"bloodType", "urgencyLevel"}
   ELSE IF type = "elder_support" THEN {"serviceType", "dueDate"}
   ELSE IF type = "complaint" THEN {"title", "description", "category"}
   ELSE {})

\* allowedUpdates and typeSpecificUpdates[request.type].
AllowedFields(type) ==
  {"name", "location", "contactInfo"} \cup
  (IF type = "blood" THEN {"bloodType", "urgencyLevel"}
   ELSE IF type = "elder_support" THEN {"serviceType", "dueDate"}
   ELSE IF type = "complaint" THEN {"title", "description", "category"}
   ELSE {})

\* Variant of Updates that takes every field of the body.
Updates_WholeBody(doc, body) == body

\* The `updates` object: the body's fields that are on an allow-list.
Updates(doc, body) ==
  [f \in DOMAIN body \cap AllowedFields(doc.type) |-> body[f]]

\* Variant of SaveUpdate that writes the accepters path back as an empty array.
SaveUpdate_ClearsAccepters(cur, upd) ==
  [f \in DOMAIN cur \cup DOMAIN upd |->
     IF f \in DOMAIN upd THEN upd[f] ELSE IF f = "accepters" THEN <<>> ELSE cur[f]]

\* request.save() after Object.assign(request, updates): $set of the
\* assigned paths on the document as stored now.
SaveUpdate(cur, upd) ==
  [f \in DOMAIN cur \cup DOMAIN upd |-> IF f \in DOMAIN upd THEN upd[f] ELSE cur[f]]

UpdateRead(c, userId, rid, body) ==
  /\ CanIssue(c)
  /\ LET doc == FindById(rid)
         chk == UpdateCheck(doc, userId)
     IN calls' = [calls EXCEPT ![c] =
                    [op |-> "update", user |-> userId, rid |-> rid,
                     upd |-> IF chk = "ok" THEN Updates(doc, body) ELSE <<>>,
                     pc |-> IF chk = "ok" THEN "saving" ELSE "done",
                     res |-> IF chk = "ok" THEN "none" ELSE chk]]
  /\ UNCHANGED <<store, nextId, posted, listed>>

UpdateSave(c) ==
  /\ calls[c].op = "update"
  /\ calls[c].pc = "saving"
  /\ IF calls[c].rid \in DOMAIN store
     THEN /\ store' = [store EXCEPT ![calls[c].rid] = SaveUpdate(@, calls[c].upd)]
          /\ calls' = [calls EXCEPT ![c].pc = "done", ![c].res = "Success",
                                    ![c].upd = <<>>]
     ELSE /\ store' = store
          /\ calls' = [calls EXCEPT ![c].pc = "done", ![c].res = "ServerError",
                                    ![c].upd = <<>>]
  /\ UNCHANGED <<nextId, posted, listed>>

\* ------------------------------------------------------------------ delete

\* Variant of DeleteCheck without the owner check.
DeleteCheck_NoOwnerCheck(doc, userId) ==
  IF doc = Null THEN "NotFound" ELSE "ok"

\* Variant of DeleteCheck that lets the owner delete pending requests only.
DeleteCheck_PendingOnly(doc, userId) ==
  IF doc = Null THEN "NotFound"
  ELSE IF doc.user # userId THEN "Forbidden"
  ELSE IF doc.status # "pending" THEN "NotPending"
  ELSE "ok"

\* The checks of DELETE /:id on the document read.
DeleteCheck(doc, userId) ==
  IF doc = Null THEN "NotFound"
  ELSE IF doc.user # userId THEN "Forbidden"
  ELSE "ok"

DeleteRead(c, userId, rid) ==
  /\ CanIssue(c)
  /\ LET doc == FindById(rid)
         chk == DeleteCheck(doc, userId)
     IN calls' = [calls EXCEPT ![c] =
                    [op |-> "delete", user |-> userId, rid |-> rid,
                     upd |-> <<>>,
                     pc |-> IF chk = "ok" THEN "saving" ELSE "done",
                     res |-> IF chk = "ok" THEN "none" ELSE chk]]
  /\ UNCHANGED <<store, nextId, posted, listed>>

\* Request.findByIdAndDelete(id): removes the document with its embedded
\* acceptance records; resolves to null, without error, when there is none.
FindByIdAndDelete(rid) == [r \in DOMAIN store \ {rid} |-> store[r]]

DeleteCommit(c) ==
  /\ calls[c].op = "delete"
  /\ calls[c].pc = "saving"
  /\ store' = FindByIdAndDelete(calls[c].rid)
  /\ calls' = [calls EXCEPT ![c].pc = "done", ![c].res = "Success"]
  /\ UNCHANGED <<nextId, posted, listed>>

\* ------------------------------------------------------------------ reads

\* The read routes write nothing: each is a function of the store as it is
\* when its query runs.

\* The placeholder written over hidden contact fields.
Hidden == "Hidden"

\* populate(path, 'name phone email'): the user id replaced by the profile.
Populate(userId) ==
  [id |-> userId, name |-> userDir[userId].name, phone |-> userDir[userId].phone,
   email |-> userDir[userId].email]

\* accepters.some(accepter => accepter.user._id == viewer)
IsAccepter(doc, viewer) ==
  \E i \in DOMAIN doc.accepters : doc.accepters[i].user = viewer

\* Variant of GetCheck that refuses every viewer but the owner.
GetCheck_OwnerOnly(doc, viewer) ==
  IF doc = Null THEN "NotFound"
  ELSE IF doc.user # viewer THEN "Forbidden"
  ELSE "ok"

\* The checks of GET /:id.
GetCheck(doc, viewer) ==
  IF doc = Null THEN "NotFound"
  ELSE IF userDir[viewer].role = "citizen" /\ doc.user # viewer THEN "Forbidden"
  ELSE "ok"

\* GET /:id: the request with its owner populated.
Get(viewer, rid) ==
  LET doc == FindById(rid)
      chk == GetCheck(doc, viewer)
  IN IF chk # "ok" THEN [res |-> chk]
     ELSE [res |-> "Success", request |-> [doc EXCEPT !.user = Populate(doc.user)]]

\* Variant of ContactsCheck that tests the status before the viewer.
ContactsCheck_StatusBeforeViewer(doc, viewer) ==
  IF doc = Null THEN "NotFound"
  ELSE IF doc.type # "blood" THEN "WrongType"
  ELSE IF doc.status # "accepted" THEN "NotAccepted"
  ELSE IF doc.user # viewer /\ ~IsAccepter(doc, viewer) THEN "Forbidden"
  ELSE "ok"

\* The checks of GET /:id/contacts.
ContactsCheck(doc, viewer) ==
  IF doc = Null THEN "NotFound"
  ELSE IF doc.type # "blood" THEN "WrongType"
  ELSE IF doc.user # viewer /\ ~IsAccepter(doc, viewer) THEN "Forbidden"
  ELSE IF doc.status # "accepted" THEN "NotAccepted"
  ELSE "ok"

\* { name, phone, email } of a populated user.
Contact(userId) ==
  [name |-> userDir[userId].name, phone |-> userDir[userId].phone,
   email |-> userDir[userId].email]

\* GET /:id/contacts: requester is the populated owner, donor the populated
\* user of accepters[0].
GetMutualContacts(viewer, rid) ==
  LET doc == FindById(rid)
      chk == ContactsCheck(doc, viewer)
  IN IF chk # "ok" THEN [res |-> chk]
     ELSE [res |-> "Success",
           request |->
             [bloodType |-> doc.bloodType, urgencyLevel |-> doc.urgencyLevel,
              location |-> doc.location, status |-> doc.status,
              userRole |-> IF doc.user = viewer THEN "requester" ELSE "donor",
              requester |-> Contact(doc.user),
              donor |-> IF doc.accepters = <<>> THEN Null
                        ELSE Contact(doc.accepters[1].user) @@
                             [acceptedAt |-> doc.accepters[1].acceptedAt]]]

\* Variant of AcceptersCheck that also admits the accepters.
AcceptersCheck_AccepterAdmitted(doc, viewer) ==
  IF doc = Null THEN "NotFound"
  ELSE IF doc.user # viewer /\ ~IsAccepter(doc, viewer) THEN "Forbidden"
  ELSE "ok"

\* The checks of GET /:id/accepters.
AcceptersCheck(doc, viewer) ==
  IF doc = Null THEN "NotFound"
  ELSE IF doc.user # viewer THEN "Forbidden"
  ELSE "ok"

\* GET /: the query { user: req.user.userId }, without type or status filter.
ListQuery(viewer) == {r \in DOMAIN store : store[r].user = viewer}

\* .populate('accepters.user', 'name phone email') on a document found.
PopulateAccepters(doc) ==
  [doc EXCEPT !.accepters =
     [i \in DOMAIN doc.accepters |->
        [doc.accepters[i] EXCEPT !.user = Populate(doc.accepters[i].user)]]]

\* Variant of Redact that keeps the phone behind a mask.
Redact_MaskedPhone(req, viewer) ==
  IF req.user = viewer \/ \E i \in DOMAIN req.accepters : req.accepters[i].user.id = viewer
  THEN req
  ELSE [req EXCEPT !.accepters =
          [i \in DOMAIN req.accepters |->
             [req.accepters[i] EXCEPT !.user =
                [id |-> req.accepters[i].user.id, name |-> Hidden, phone |-> Hidden,
                 email |-> Hidden]]],
                   !.phone = "*" \o req.phone]

\* GET /: the function mapped over the populated documents: unchanged for
\* the owner and for an accepter, else the accepters' users and the phone
\* hidden.
Redact(req, viewer) ==
  IF req.user = viewer \/ \E i \in DOMAIN req.accepters : req.accepters[i].user.id = viewer
  THEN req
  ELSE [req EXCEPT !.accepters =
          [i \in DOMAIN req.accepters |->
             [req.accepters[i] EXCEPT !.user =
                [id |-> req.accepters[i].user.id, name |-> Hidden, phone |-> Hidden,
                 email |-> Hidden]]],
                   !.phone = Hidden]

\* GET /: the view of one document found; accepters.user is populated, the
\* owner is not.
FilterRequest(doc, viewer) == Redact(PopulateAccepters(doc), viewer)

\* GET /: the `requests` of the response, by id.
List(viewer) == [r \in ListQuery(viewer) |-> FilterRequest(store[r], viewer)]

\* GET /accepted: the query { 'accepters.user': req.user.userId }.
AcceptedQuery(viewer) == {r \in DOMAIN store : IsAccepter(store[r], viewer)}

\* GET /blood/accepted: accepted blood requests of which the viewer is the
\* requester or an accepter.
BloodAcceptedQuery(viewer) ==
  {r \in DOMAIN store : /\ store[r].type = "blood"
                        /\ store[r].status = "accepted"
                        /\ (store[r].user = viewer \/ IsAccepter(store[r], viewer))}

\* Variant of PublicBloodQuery without the condition on the status.
PublicBloodQuery_AnyStatus(viewer) ==
  {r \in DOMAIN store : /\ store[r].type = "blood"
                        /\ store[r].user # viewer
                        /\ store[r].accepters = <<>>}

\* GET /public/blood: pending blood requests of other users, without accepter.
PublicBloodQuery(viewer) ==
  {r \in DOMAIN store : /\ store[r].type = "blood"
                        /\ store[r].status = "pending"
                        /\ store[r].user # viewer
                        /\ store[r].accepters = <<>>}

\* GET /:id/accepters: the acceptance records with their users populated.
GetAccepters(viewer, rid) ==
  LET doc == FindById(rid)
      chk == AcceptersCheck(doc, viewer)
  IN IF chk # "ok" THEN [res |-> chk]
     ELSE [res |-> "Success",
           accepters |->
             [i \in DOMAIN doc.accepters |->
                [user |-> Populate(doc.accepters[i].user),
                 acceptedAt |-> doc.accepters[i].acceptedAt,
                 status |-> doc.accepters[i].status]]]

\* GET /accepted: one item of the response; requester is the owner populated
\* with 'name email', acceptance the viewer's own record.
AcceptedItem(doc, viewer) ==
  LET own == CHOOSE i \in DOMAIN doc.accepters : doc.accepters[i].user = viewer
  IN [type |-> doc.type, name |-> doc.name, phone |-> doc.phone,
      location |-> doc.location, status |-> doc.status,
      requester |-> [id |-> doc.user, name |-> userDir[doc.user].name,
                     email |-> userDir[doc.user].email],
      acceptance |-> [acceptedAt |-> doc.accepters[own].acceptedAt,
                      status |-> doc.accepters[own].status]]

\* GET /accepted: the `requests` of the response, by id.
Accepted(viewer) == [r \in AcceptedQuery(viewer) |-> AcceptedItem(store[r], viewer)]

\* GET /blood/accepted: one item of the response.
BloodAcceptedItem(doc, viewer) ==
  [bloodType |-> doc.bloodType, urgencyLevel |-> doc.urgencyLevel,
   location |-> doc.location, status |-> doc.status,
   userRole |-> IF doc.user = viewer THEN "requester" ELSE "donor",
   requester |-> Contact(doc.user),
   donor |-> IF doc.accepters = <<>> THEN Null
             ELSE Contact(doc.accepters[1].user) @@
                  [acceptedAt |-> doc.accepters[1].acceptedAt]]

\* GET /blood/accepted: the `requests` of the response, by id.
BloodAccepted(viewer) ==
  [r \in BloodAcceptedQuery(viewer) |-> BloodAcceptedItem(store[r], viewer)]

\* GET /public/blood: one item of the response.
PublicBloodItem(doc) ==
  [name |-> doc.name, phone |-> Hidden, location |-> doc.location,
   bloodType |-> doc.bloodType, urgencyLevel |-> doc.urgencyLevel,
   status |-> doc.status, user |-> [id |-> doc.user, name |-> Hidden]]

\* GET /public/blood: the `requests` of the response, by id.
PublicBlood(viewer) ==
  [r \in PublicBloodQuery(viewer) |-> PublicBloodItem(store[r])]

\* ------------------------------------------------------------------ list

\* GET / with its query string: filters, sort, page.

\* A query parameter that is not given (undefined, or empty and so falsy).
Absent == "absent"

\* Defaults of the destructured query: page = 1, limit = 10.
DefaultPage == 1
DefaultLimit == 10

\* parseInt on the page and limit strings of the query.
ParseInt(s) == CASE s = "1" -> 1 [] s = "2" -> 2 [] s = "3" -> 3 [] s = "4" -> 4

PageOf(q) == IF q.page = Absent THEN DefaultPage ELSE ParseInt(q.page)
LimitOf(q) == IF q.limit = Absent THEN DefaultLimit ELSE ParseInt(q.limit)

\* status.split(','): the pieces between the commas, blanks kept.
Split(s) ==
  CASE s = "pending" -> <<"pending">>
    [] s = "accepted, resolved" -> <<"accepted", " resolved">>

\* s.trim()
Trim(s) == IF s = " resolved" THEN "resolved" ELSE s

\* statusArray, as a set: the operand of $in.
StatusArray(s) == {Trim(Split(s)[i]) : i \in DOMAIN Split(s)}

\* Variant of Matches that also takes the requests the caller has accepted.
Matches_OwnerOrAccepter(doc, viewer, q) ==
  /\ doc.user = viewer \/ IsAccepter(doc, viewer)
  /\ q.type # Absent => doc.type = q.type
  /\ q.status # Absent => doc.status \in StatusArray(q.status)

\* Variant of Matches without the status filter.
Matches_NoStatus(doc, viewer, q) ==
  /\ doc.user = viewer
  /\ q.type # Absent => doc.type = q.type

\* The document satisfies `query`: the caller's own, of the type given, with
\* a status among those given.
Matches(doc, viewer, q) ==
  /\ doc.user = viewer
  /\ q.type # Absent => doc.type = q.type
  /\ q.status # Absent => doc.status \in StatusArray(q.status)

\* Request.find(query) and Request.countDocuments(query): the ids matched.
ListFind(viewer, q) == {r \in DOMAIN store : Matches(store[r], viewer, q)}

\* sortCriteria: document a may come before document b.
Before(q, a, b) ==
  CASE q.sortBy = "oldest" -> a.createdAt <= b.createdAt
    [] q.sortBy = "updated" -> a.updatedAt >= b.updatedAt
    [] OTHER -> a.createdAt >= b.createdAt

\* .sort(sortCriteria): the orders of the matched ids the store may give;
\* documents with equal keys come in any order.
Sorted(viewer, q) ==
  LET S == ListFind(viewer, q)
      n == Cardinality(S)
  IN {s \in [1 .. n -> S] :
        /\ \A i, j \in 1 .. n : i # j => s[i] # s[j]
        /\ \A i, j \in 1 .. n : i < j => Before(q, store[s[i]], store[s[j]])}

\* Variant of Skip that counts pages from zero.
Skip_PageTimesLimit(q) == PageOf(q) * LimitOf(q)

\* skip = (parseInt(page) - 1) * parseInt(limit)
Skip(q) == (PageOf(q) - 1) * LimitOf(q)

\* .skip(skip).limit(parseInt(limit)) on the sorted ids.
PageIds(s, q) ==
  LET last == IF Skip(q) + LimitOf(q) < Len(s) THEN Skip(q) + LimitOf(q) ELSE Len(s)
  IN SubSeq(s, Skip(q) + 1, last)

\* Math.ceil(a / b) for b >= 1.
Ceil(a, b) == (a + b - 1) \div b

\* The response of GET / when the store returns the matched ids in order s.
ListResponse(viewer, q, s) ==
  LET ids == PageIds(s, q)
      total == Cardinality(ListFind(viewer, q))
  IN [user |-> viewer, query |-> q, ids |-> ids,
      requests |-> [i \in DOMAIN ids |-> FilterRequest(store[ids[i]], viewer)],
      pagination |-> [current |-> PageOf(q),
                      total |-> Ceil(total, LimitOf(q)),
                      count |-> Len(ids),
                      totalRequests |-> total]]

\* GET /: find and countDocuments run on the same store here; the response
\* is put on record. One GET / is followed in a behaviour.
ListCall(viewer, q) ==
  /\ listed = NoList
  /\ \E s \in Sorted(viewer, q) : listed' = ListResponse(viewer, q, s)
  /\ UNCHANGED <<store, nextId, calls, posted>>

\* ------------------------------------------------------------------ workflow

\* Status advance by the workflow outside the request routes.
ExternalAdvance(rid, status) ==
  /\ rid \in DOMAIN store
  /\ store[rid].status # status
  /\ store' = [store EXCEPT ![rid].status = status]
  /\ UNCHANGED <<nextId, calls, posted, listed>>

\* ------------------------------------------------------------------ specifications

Next ==
  \/ \E u \in Users, t \in Types, n \in CreateNames, ph \in CreatePhones :
          \E pl \in CreatePayloads(t) : Create(u, t, n, ph, pl) /\ UNCHANGED <<posted, listed>>
  \/ \E c \in CallIds, u \in Users, r \in RequestIds : VolunteerRead(c, u, r)
  \/ \E c \in CallIds : VolunteerSave(c)
  \/ \E c \in CallIds, u \in Users, r \in RequestIds, b \in UpdateBodies :
        UpdateRead(c, u, r, b)
  \/ \E c \in CallIds : UpdateSave(c)
  \/ \E c \in CallIds, u \in Users, r \in RequestIds : DeleteRead(c, u, r)
  \/ \E c \in CallIds : DeleteCommit(c)

\* The request routes alone. The responses of POST / are not put on record.
Spec == Init /\ [][Next]_vars

NextExt ==
  \/ Next
  \/ \E r \in RequestIds, s \in DownstreamStatuses : ExternalAdvance(r, s)

\* The request routes together with the downstream workflow.
SpecExt == Init /\ [][NextExt]_vars

\* Calls between their read step and their write step.
InFlight == {c \in CallIds : calls[c].pc = "saving"}

\* The request routes when every handler runs to its response before the
\* next call arrives (one call after the other).
NextSeq ==
  \/ /\ InFlight = {}
     /\ \E u \in Users, t \in Types, n \in CreateNames, ph \in CreatePhones :
          \E pl \in CreatePayloads(t) : Create(u, t, n, ph, pl) /\ UNCHANGED <<posted, listed>>
  \/ /\ InFlight = {}
     /\ \E c \in CallIds, u \in Users, r \in RequestIds : VolunteerRead(c, u, r)
  \/ \E c \in CallIds : VolunteerSave(c)
  \/ /\ InFlight = {}
     /\ \E c \in CallIds, u \in Users, r \in RequestIds, b \in UpdateBodies :
          UpdateRead(c, u, r, b)
  \/ \E c \in CallIds : UpdateSave(c)
  \/ /\ InFlight = {}
     /\ \E c \in CallIds, u \in Users, r \in RequestIds : DeleteRead(c, u, r)
  \/ \E c \in CallIds : DeleteCommit(c)

SpecSeq == Init /\ [][NextSeq]_vars

\* Create and update with every body the validators let through: fields of
\* other types, fields on no allow-list, a phone in the body or none.
NextFields ==
  \/ \E u \in Users, t \in Types, n \in CreateNames, ph \in BodyPhones :
       \E pl \in ValidPayloads(t) : Post(u, t, n, ph, pl)
  \/ \E c \in CallIds, u \in Users, r \in RequestIds, b \in WideUpdateBodies :
        UpdateRead(c, u, r, b)
  \/ \E c \in CallIds : UpdateSave(c)

SpecFields == Init /\ [][NextFields]_vars

\* The listing alone, over a collection that is already filled.

\* Number of documents in the collection.
MaxListed == 2

\* Owners, types and statuses of the documents listed.
ListedOwners == {"u1", "u2"}
ListedTypes == {"blood", "complaint"}
ListedStatuses == {"pending", "accepted", "resolved"}

\* The r-th document created: createdAt follows the order of creation;
\* updatedAt is createdAt, or later when the document was saved again. An
\* accepted blood request carries the acceptance of the other user.
ListedDoc(r, owner, type, status, saved) ==
  [NewRequest(owner, type, "n1", userDir[owner].phone,
              CHOOSE pl \in CreatePayloads(type) : TRUE)
     EXCEPT !.status = status,
            !.accepters = IF type = "blood" /\ status = "accepted"
                          THEN <<Acceptance(CHOOSE u \in ListedOwners : u # owner)>>
                          ELSE <<>>]
  @@ [createdAt |-> r, updatedAt |-> IF saved THEN MaxListed + 1 ELSE r]

\* The collections listed; the routes set accepted on blood requests only.
ListedStores ==
  {[r \in 1 .. MaxListed |-> ListedDoc(r, f[r].owner, f[r].type, f[r].status, f[r].saved)] :
     f \in [1 .. MaxListed -> {d \in [owner : ListedOwners, type : ListedTypes,
                                      status : ListedStatuses, saved : BOOLEAN] :
                                 d.status = "accepted" => d.type = "blood"}]}

\* Query strings of GET /.
Queries ==
  [type : {Absent, "blood"},
   status : {Absent, "pending", "accepted, resolved"},
   sortBy : {Absent, "oldest", "updated", "popular"},
   page : {Absent, "1", "2"},
   limit : {Absent, "1", "2"}]

InitList ==
  /\ store \in ListedStores
  /\ nextId = MaxListed + 1
  /\ calls = [c \in CallIds |-> Idle]
  /\ posted = NoPost
  /\ listed = NoList

NextList == \E viewer \in ListedOwners, q \in Queries : ListCall(viewer, q)

SpecList == InitList /\ [][NextList]_vars

\* ------------------------------------------------------------------ properties

\* Call c has sent its response, and it is a call of operation op.
IsDone(c, op) == calls[c].pc = "done" /\ calls[c].op = op

\* This step is the read step of call c, of operation op.
ReadStep(c, op) == calls[c].pc = "idle" /\ calls'[c].op = op

\* This step is the write step of call c, of operation op.
WriteStep(c, op) == calls[c].op = op /\ calls[c].pc = "saving" /\ calls'[c].pc = "done"

\* The finished volunteer calls made on request r, while it existed, by users
\* other than its owner.
Candidates(r) ==
  {c \in CallIds : /\ IsDone(c, "volunteer")
                   /\ calls[c].rid = r
                   /\ calls[c].user # store[r].user
                   /\ calls[c].res # "NotFound"}

\* C1 (P1, single acceptor): when N >= 2 volunteer calls by distinct users
\* other than the owner have all finished on one existing blood request, in
\* any interleaving of their reads and writes, exactly one of them has
\* returned success, every other one AlreadyAccepted, and the stored
\* accepters sequence has length exactly 1.
C1_ExactlyOneRacerSucceeds ==
  \A r \in DOMAIN store :
    ( /\ store[r].type = "blood"
      /\ InFlight = {}
      /\ Cardinality(Candidates(r)) >= 2
      /\ \A c, d \in Candidates(r) : c # d => calls[c].user # calls[d].user )
    => /\ Cardinality({c \in Candidates(r) : calls[c].res = "Success"}) = 1
       /\ \A c \in Candidates(r) : calls[c].res \in {"Success", "AlreadyAccepted"}
       /\ Len(store[r].accepters) = 1

\* C2 (I1): every stored blood request has at most one acceptance record.
C2_AtMostOneAccepter ==
  \A r \in DOMAIN store :
    store[r].type = "blood" => Len(store[r].accepters) <= 1

C4_OwnerNeverAccepter ==
  \A r \in DOMAIN store :
    \A i \in 1..Len(store[r].accepters) :
      store[r].accepters[i].user # store[r].user

C4_Witness ==
  \E r \in DOMAIN store :
    /\ Len(store[r].accepters) >= 1
    /\ \E c \in CallIds : /\ IsDone(c, "volunteer")
                          /\ calls[c].rid = r
                          /\ calls[c].user = store[r].user
                          /\ calls[c].res = "SelfAcceptance"

\* C5 (P2), as claimed: a volunteer call by the owner of an existing request
\* is answered SelfAcceptance whatever the state of the request, and leaves
\* the store as it was.
C5_OwnerAlwaysSelfAcceptance ==
  [][\A c \in CallIds :
       ( /\ ReadStep(c, "volunteer")
         /\ calls'[c].rid \in DOMAIN store
         /\ store[calls'[c].rid].user = calls'[c].user )
       => /\ calls'[c].pc = "done"
          /\ calls'[c].res = "SelfAcceptance"
          /\ store' = store]_vars

\* C5 (P2), amended: a volunteer call by the owner of an existing blood
\* request is answered SelfAcceptance whatever the status of the request and
\* the number of its accepters, and leaves the store as it was.
C5_OwnerOfBloodSelfAcceptance ==
  [][\A c \in CallIds :
       ( /\ ReadStep(c, "volunteer")
         /\ calls'[c].rid \in DOMAIN store
         /\ store[calls'[c].rid].type = "blood"
         /\ store[calls'[c].rid].user = calls'[c].user )
       => /\ calls'[c].pc = "done"
          /\ calls'[c].res = "SelfAcceptance"
          /\ store' = store]_vars

C5_Witness ==
  \E c \in CallIds :
    /\ IsDone(c, "volunteer")
    /\ calls[c].res = "SelfAcceptance"
    /\ calls[c].rid \in DOMAIN store
    /\ store[calls[c].rid].user = calls[c].user
    /\ store[calls[c].rid].status = "in_progress"
    /\ Len(store[calls[c].rid].accepters) >= 1

\* C6: the volunteer handler answers with the failure of the first violated
\* precondition in the order: request exists (NotFound), type is blood
\* (WrongType), caller is not the owner (SelfAcceptance), request has no
\* accepter (AlreadyAccepted); with none violated it goes on to its write.
C6_PreconditionOrder ==
  [][\A c \in CallIds :
       ReadStep(c, "volunteer") =>
         LET d == FindById(calls'[c].rid)
             u == calls'[c].user
             res == calls'[c].res
         IN /\ d = Null => res = "NotFound"
            /\ (d # Null /\ d.type # "blood") => res = "WrongType"
            /\ (d # Null /\ d.type = "blood" /\ d.user = u) => res = "SelfAcceptance"
            /\ (d # Null /\ d.type = "blood" /\ d.user # u /\ Len(d.accepters) > 0)
                 => res = "AlreadyAccepted"
            /\ (d # Null /\ d.type = "blood" /\ d.user # u /\ Len(d.accepters) = 0)
                 => (res = "none" /\ calls'[c].pc = "saving")
            /\ res # "none" => calls'[c].pc = "done"]_vars

\* Several preconditions violated at once: the owner of a request that is not
\* a blood request, and the owner of a blood request that has an accepter.
C6_Witness ==
  /\ \E c \in CallIds :
       /\ IsDone(c, "volunteer")
       /\ calls[c].res = "WrongType"
       /\ calls[c].rid \in DOMAIN store
       /\ store[calls[c].rid].user = calls[c].user
  /\ \E c \in CallIds : IsDone(c, "volunteer") /\ calls[c].res = "NotFound"

\* C7 (Scenario B, one call after the other): once a volunteer call of user
\* U2 has succeeded on a request, the request is accepted with accepters =
\* [U2]; a later volunteer call on it by another user who is not the owner is
\* answered AlreadyAccepted, and status and accepters stay as they were.
C7_SecondVolunteerRefused ==
  \A c1, c2 \in CallIds :
    ( /\ IsDone(c1, "volunteer")
      /\ calls[c1].res = "Success"
      /\ calls[c1].rid \in DOMAIN store )
    => LET r == calls[c1].rid
       IN /\ store[r].status = "accepted"
          /\ store[r].accepters = <<Acceptance(calls[c1].user)>>
          /\ ( /\ c1 < c2
               /\ IsDone(c2, "volunteer")
               /\ calls[c2].rid = r
               /\ calls[c2].user # calls[c1].user
               /\ calls[c2].user # store[r].user )
             => calls[c2].res = "AlreadyAccepted"

C7_Witness ==
  \E c1, c2 \in CallIds :
    /\ c1 < c2
    /\ IsDone(c1, "volunteer") /\ calls[c1].res = "Success"
    /\ IsDone(c2, "volunteer") /\ calls[c2].res = "AlreadyAccepted"
    /\ calls[c1].rid = calls[c2].rid
    /\ calls[c1].user # calls[c2].user
    /\ calls[c1].rid \in DOMAIN store

\* C8: a volunteer call whose write comes after the request has been deleted
\* is answered NotFound, and writes nothing.
C8_LateAcceptIsNotFound ==
  [][\A c \in CallIds :
       (WriteStep(c, "volunteer") /\ calls[c].rid \notin DOMAIN store)
       => (calls'[c].res = "NotFound" /\ store' = store)]_vars

\* C9 (P5): an update by the owner of an existing request is refused with
\* NotPending, nothing written, when the status it reads is any other than
\* pending; when it reads pending it goes on to its write, which, the request
\* still existing, stores the assigned fields and is answered with success.
C9_UpdateOnlyWhilePending ==
  [][\A c \in CallIds :
       /\ ( /\ ReadStep(c, "update")
            /\ calls'[c].rid \in DOMAIN store
            /\ store[calls'[c].rid].user = calls'[c].user )
          => /\ store' = store
             /\ IF store[calls'[c].rid].status = "pending"
                THEN calls'[c].pc = "saving" /\ calls'[c].res = "none"
                ELSE calls'[c].pc = "done" /\ calls'[c].res = "NotPending"
       /\ (WriteStep(c, "update") /\ calls[c].rid \in DOMAIN store)
          => /\ calls'[c].res = "Success"
             /\ calls[c].rid \in DOMAIN store'
             /\ \A f \in DOMAIN calls[c].upd :
                  store'[calls[c].rid][f] = calls[c].upd[f]]_vars

C9_Witness ==
  /\ \E c \in CallIds :
       /\ IsDone(c, "update")
       /\ calls[c].res = "NotPending"
       /\ calls[c].rid \in DOMAIN store
       /\ store[calls[c].rid].status = "cancelled"
  /\ \E c \in CallIds :
       /\ IsDone(c, "update")
       /\ calls[c].res = "Success"
       /\ calls[c].rid \in DOMAIN store
       /\ store[calls[c].rid].name = "n2"

\* C10 (I5 under interleaving): the write of an update changes no field of a
\* request whose stored status, at the moment of the write, is not pending.
C10_NoUpdateWriteUnlessPending ==
  [][\A c \in CallIds :
       ( /\ WriteStep(c, "update")
         /\ calls[c].rid \in DOMAIN store
         /\ store[calls[c].rid].status # "pending" )
       => store' = store]_vars

\* C11: the update handler answers NotFound when the request is absent, else
\* Forbidden when the caller is not the owner, whatever the status, else
\* NotPending when the status is not pending; an update that fails writes
\* nothing.
C11_UpdateCheckOrder ==
  [][\A c \in CallIds :
       /\ ReadStep(c, "update") =>
            LET d == FindById(calls'[c].rid)
                u == calls'[c].user
                res == calls'[c].res
            IN /\ d = Null => res = "NotFound"
               /\ (d # Null /\ d.user # u) => res = "Forbidden"
               /\ (d # Null /\ d.user = u /\ d.status # "pending") => res = "NotPending"
               /\ (d # Null /\ d.user = u /\ d.status = "pending") => res = "none"
               /\ store' = store
       /\ (WriteStep(c, "update") /\ calls'[c].res # "Success") => store' = store]_vars

C11_Witness ==
  \E c \in CallIds :
    /\ IsDone(c, "update")
    /\ calls[c].res = "Forbidden"
    /\ calls[c].rid \in DOMAIN store
    /\ store[calls[c].rid].user # calls[c].user
    /\ store[calls[c].rid].status = "resolved"

\* Field f of a request differs between the documents old and new.
Changed(old, new, f) ==
  IF f \in DOMAIN old /\ f \in DOMAIN new THEN old[f] # new[f] ELSE TRUE

\* An update whose body passes the allow-list `generic` plus the fields of the
\* request's type: the read step keeps exactly the supplied fields on that
\* list, whatever else the body holds, and fails for no body; the write step
\* changes those fields and no other field of the request, and no other
\* request.
UpdateFrame(generic) ==
  \A c \in CallIds :
    /\ ReadStep(c, "update") =>
         \A b \in WideUpdateBodies :
           UpdateRead(c, calls'[c].user, calls'[c].rid, b) =>
             LET d == FindById(calls'[c].rid)
             IN /\ UpdateCheck(d, calls'[c].user) = "ok" => calls'[c].pc = "saving"
                /\ calls'[c].pc = "saving" =>
                     calls'[c].upd =
                       [f \in DOMAIN b \cap (generic \cup TypeFields(d.type)) |-> b[f]]
    /\ (WriteStep(c, "update") /\ calls'[c].res = "Success") =>
         LET r == calls[c].rid
         IN /\ r \in DOMAIN store'
            /\ \A f \in DOMAIN store[r] \cup DOMAIN store'[r] :
                 Changed(store[r], store'[r], f) =>
                   /\ f \in DOMAIN calls[c].upd
                   /\ f \in generic \cup TypeFields(store[r].type)
                   /\ store'[r][f] = calls[c].upd[f]
            /\ \A q \in DOMAIN store \ {r} : q \in DOMAIN store' /\ store'[q] = store[q]

\* C12 as stated: a successful update changes only supplied fields that are
\* generic (name, location) or on the list of the request's type; every other
\* supplied field is ignored without a failure and every other field of the
\* request is left unchanged.
C12_OnlyNameLocationAndTypeFields == [][UpdateFrame({"name", "location"})]_vars

\* C12 amended: the same, with contactInfo among the generic fields.
C12_OnlyAllowedFieldsChange ==
  [][UpdateFrame({"name", "location", "contactInfo"})]_vars

C12_Witness ==
  \E c \in CallIds :
    /\ IsDone(c, "update")
    /\ calls[c].res = "Success"
    /\ calls[c].rid \in DOMAIN store
    /\ store[calls[c].rid].type = "blood"
    /\ store[calls[c].rid].bloodType = "v2"
    /\ "contactInfo" \in DOMAIN store[calls[c].rid]
    /\ store[calls[c].rid].contactInfo = "c1"
    /\ store[calls[c].rid].urgencyLevel = "v1"

\* C13: the id, type and owner of a request never change after creation: a
\* request that exists before and after a step is stored under the same id
\* with the same type and the same owner, and an id is never given to a second
\* request.
C13_TypeAndOwnerImmutable ==
  [][/\ \A r \in DOMAIN store \cap DOMAIN store' :
          /\ store'[r].type = store[r].type
          /\ store'[r].user = store[r].user
     /\ \A r \in DOMAIN store' \ DOMAIN store : r = nextId /\ nextId' > r]_vars

C13_Witness ==
  \E r \in DOMAIN store, c \in CallIds :
    /\ IsDone(c, "update")
    /\ calls[c].res = "Success"
    /\ calls[c].rid = r
    /\ store[r].name = "n2"
    /\ store[r].status = "accepted"

\* C14: a delete of an existing request by a user who is not its owner answers
\* Forbidden and leaves the store, acceptance records included, as it was; a
\* request leaves the store only in the write step of a delete call made by
\* its owner.
C14_DeleteForbiddenForNonOwner ==
  [][/\ \A c \in CallIds :
          ReadStep(c, "delete") =>
            LET d == FindById(calls'[c].rid)
            IN (d # Null /\ d.user # calls'[c].user) =>
                 /\ calls'[c].res = "Forbidden"
                 /\ calls'[c].pc = "done"
                 /\ store' = store
     /\ \A r \in DOMAIN store \ DOMAIN store' :
          \E c \in CallIds :
            /\ WriteStep(c, "delete")
            /\ calls[c].rid = r
            /\ calls[c].user = store[r].user]_vars

C14_Witness ==
  \E c \in CallIds :
    /\ IsDone(c, "delete")
    /\ calls[c].res = "Forbidden"
    /\ calls[c].rid \in DOMAIN store
    /\ store[calls[c].rid].user # calls[c].user
    /\ store[calls[c].rid].accepters # <<>>

\* The ids of the requests that were created and are no longer stored.
Deleted == (1 .. (nextId - 1)) \ DOMAIN store

\* C15: a delete by the owner proceeds at every status and its write answers
\* Success and removes the request, acceptance records included; from then on
\* every operation issued on that id (Get, Update, Delete, Volunteer,
\* GetAccepters, GetMutualContacts) answers NotFound and changes nothing, and no
\* listing holds the id.
C15_OwnerDeleteThenNotFound ==
  /\ [](\A r \in Deleted, u \in Users :
          /\ Get(u, r).res = "NotFound"
          /\ AcceptersCheck(FindById(r), u) = "NotFound"
          /\ ContactsCheck(FindById(r), u) = "NotFound"
          /\ r \notin ListQuery(u) \cup AcceptedQuery(u) \cup BloodAcceptedQuery(u)
                        \cup PublicBloodQuery(u))
  /\ [][\A c \in CallIds :
          /\ ReadStep(c, "delete") =>
               LET d == FindById(calls'[c].rid)
               IN (d # Null /\ d.user = calls'[c].user) => calls'[c].pc = "saving"
          /\ WriteStep(c, "delete") =>
               /\ calls'[c].res = "Success"
               /\ store' = [r \in DOMAIN store \ {calls[c].rid} |-> store[r]]
          /\ \A op \in {"update", "delete", "volunteer"} :
               (ReadStep(c, op) /\ calls'[c].rid \in Deleted) =>
                 /\ calls'[c].res = "NotFound"
                 /\ calls'[c].pc = "done"
                 /\ store' = store]_vars

C15_Witness ==
  \E c, d \in CallIds :
    /\ IsDone(c, "delete")
    /\ calls[c].res = "Success"
    /\ calls[c].rid \in Deleted
    /\ IsDone(d, "volunteer")
    /\ calls[d].rid = calls[c].rid
    /\ calls[d].res = "NotFound"
    /\ d > c

\* C16: every request produced by a successful create has status pending, no
\* accepters, the caller as owner and the type the caller gave; and a request
\* enters the store in no other way.
C16_CreatedPendingOwnedTyped ==
  [][/\ (posted' # posted /\ posted'.res = "Success") =>
          LET r == posted'.rid
          IN /\ r \notin DOMAIN store
             /\ r \in DOMAIN store'
             /\ store'[r].status = "pending"
             /\ store'[r].accepters = <<>>
             /\ store'[r].user = posted'.user
             /\ store'[r].type = posted'.type
     /\ \A r \in DOMAIN store' \ DOMAIN store :
          posted' # posted /\ posted'.res = "Success" /\ posted'.rid = r]_vars

C16_Witness ==
  /\ posted.res = "Success"
  /\ posted.user = "u1"
  /\ posted.type = "blood"
  /\ posted.rid \in DOMAIN store
  /\ store[posted.rid].type = "blood"
  /\ store[posted.rid].user = "u1"
  /\ store[posted.rid].status = "pending"

\* C17: a create answers PhoneRequired and persists nothing exactly when the
\* body has no phone and the caller's profile has none; otherwise it succeeds
\* and the phone of the created request is the body's phone when supplied and
\* the profile's phone when the body omits it.
C17_PhoneRequiredOrResolved ==
  [][posted' # posted =>
       IF posted'.phone = NoPhone /\ userDir[posted'.user].phone = NoPhone
       THEN /\ posted'.res = "PhoneRequired"
            /\ store' = store
            /\ nextId' = nextId
       ELSE /\ posted'.res = "Success"
            /\ posted'.rid \in DOMAIN store' \ DOMAIN store
            /\ store'[posted'.rid].phone =
                 (IF posted'.phone # NoPhone THEN posted'.phone
                  ELSE userDir[posted'.user].phone)]_vars

C17_Witness ==
  /\ posted.res = "PhoneRequired"
  /\ posted.phone = NoPhone
  /\ userDir[posted.user].phone = NoPhone
  /\ DOMAIN store = {}
  /\ nextId = 1

\* C18 (I4): in every reachable state the type-specific fields present on a
\* request are exactly those of its type, and no field of another type is set
\* on it, whatever fields the create and update bodies carried; the fields
\* derived at creation (priority, images) are on requests of their own type
\* only.
C18_NoCrossTypeFields ==
  \A r \in DOMAIN store :
    /\ DOMAIN store[r] \cap AllTypeFields = TypeFields(store[r].type)
    /\ "priority" \in DOMAIN store[r] => store[r].type = "blood"
    /\ "images" \in DOMAIN store[r] => store[r].type = "complaint"

C18_Witness ==
  \E r \in DOMAIN store, c \in CallIds :
    /\ store[r].type = "complaint"
    /\ IsDone(c, "update")
    /\ calls[c].res = "Success"
    /\ calls[c].rid = r
    /\ store[r].title = "v2"
    /\ DOMAIN store[r] \cap AllTypeFields = {"title", "description", "category"}

\* C19: the visibility table as List applies it: List shows a viewer every
\* stored request (no filter given), and for each one, taken by itself, a
\* viewer who is its owner or one of its accepters gets the owner's and the
\* accepters' contact fields as stored, and a viewer who is neither gets the
\* owner's name and phone and every accepter's name, phone and email replaced
\* by the placeholder.
C19_ListVisibilityTable ==
  \A viewer \in Users, r \in DOMAIN store :
    /\ r \in DOMAIN List(viewer)
    /\ LET doc == store[r]
           v == List(viewer)[r]
       IN IF doc.user = viewer \/ IsAccepter(doc, viewer)
          THEN /\ v.name = doc.name
               /\ v.phone = doc.phone
               /\ \A i \in DOMAIN doc.accepters :
                    v.accepters[i].user = Populate(doc.accepters[i].user)
          ELSE /\ v.name = Hidden
               /\ v.phone = Hidden
               /\ \A i \in DOMAIN doc.accepters :
                    /\ v.accepters[i].user.name = Hidden
                    /\ v.accepters[i].user.phone = Hidden
                    /\ v.accepters[i].user.email = Hidden

\* C20 (P3): for a pending blood request without accepters, whatever List and
\* Get return of it to a viewer other than the owner has the owner's contact
\* fields replaced by the placeholder, whatever the viewer's role, and what
\* they return to the owner has none of them replaced.
C20_PendingBloodOwnerContact ==
  \A viewer \in Users, r \in DOMAIN store :
    (store[r].type = "blood" /\ store[r].status = "pending" /\ store[r].accepters = <<>>) =>
      LET doc == store[r]
          g == Get(viewer, r)
      IN IF viewer = doc.user
         THEN /\ g.res = "Success"
              /\ g.request.user = Populate(doc.user)
              /\ g.request.name = doc.name
              /\ g.request.phone = doc.phone
              /\ r \in DOMAIN List(viewer)
              /\ List(viewer)[r].name = doc.name
              /\ List(viewer)[r].phone = doc.phone
         ELSE /\ g.res = "Success" =>
                   /\ g.request.user.name = Hidden
                   /\ g.request.user.phone = Hidden
                   /\ g.request.user.email = Hidden
                   /\ g.request.name = Hidden
                   /\ g.request.phone = Hidden
              /\ r \in DOMAIN List(viewer) =>
                   /\ List(viewer)[r].name = Hidden
                   /\ List(viewer)[r].phone = Hidden

\* C21: every item of the public listing of open blood requests has the
\* owner's name and the phone replaced by the placeholder, for every viewer and
\* every listed request, and no field of the item holds the owner's real name
\* or phone.
C21_PublicListingHidesOwner ==
  \A viewer \in Users :
    \A r \in DOMAIN PublicBlood(viewer) :
      LET item == PublicBlood(viewer)[r]
          owner == store[r].user
          real == {userDir[owner].name, userDir[owner].phone, store[r].phone} \ {NoPhone}
      IN /\ item.user.name = Hidden
         /\ item.phone = Hidden
         /\ \A f \in {"name", "phone", "location", "bloodType", "urgencyLevel", "status"} :
              item[f] \notin real

\* C22: GetMutualContacts on an existing request answers WrongType unless the
\* request is blood, else Forbidden unless the viewer is the owner or an
\* accepter, else NotAccepted unless the status is accepted, and succeeds
\* otherwise; so it succeeds on no request that is pending or past accepted.
C22_ContactsCheckOrder ==
  \A viewer \in Users, r \in RequestIds :
    LET d == FindById(r)
        res == GetMutualContacts(viewer, r).res
    IN /\ d = Null => res = "NotFound"
       /\ (d # Null /\ d.type # "blood") => res = "WrongType"
       /\ (d # Null /\ d.type = "blood" /\ d.user # viewer
              /\ \A i \in DOMAIN d.accepters : d.accepters[i].user # viewer)
            => res = "Forbidden"
       /\ (d # Null /\ d.type = "blood"
              /\ (d.user = viewer \/ \E i \in DOMAIN d.accepters : d.accepters[i].user = viewer)
              /\ d.status # "accepted")
            => res = "NotAccepted"
       /\ res = "Success" <=>
            /\ d # Null
            /\ d.type = "blood"
            /\ (d.user = viewer \/ \E i \in DOMAIN d.accepters : d.accepters[i].user = viewer)
            /\ d.status = "accepted"

C22_Witness ==
  \E viewer \in Users, r \in DOMAIN store :
    /\ store[r].type = "blood"
    /\ store[r].status = "in_progress"
    /\ IsAccepter(store[r], viewer)
    /\ GetMutualContacts(viewer, r).res = "NotAccepted"
    /\ GetMutualContacts(store[r].user, r).res = "NotAccepted"

\* C23 (P4): once a volunteer call by candidate C on request R of owner O has
\* succeeded, and while R is accepted, GetMutualContacts succeeds for O and for
\* C and gives both the same requester and donor, O's true contact as
\* requester and C's true contact as donor, and it answers Forbidden to every
\* third user.
C23_MutualContactsAfterAccept ==
  \A c \in CallIds :
    ( /\ IsDone(c, "volunteer")
      /\ calls[c].res = "Success"
      /\ calls[c].rid \in DOMAIN store
      /\ store[calls[c].rid].status = "accepted" ) =>
      LET r == calls[c].rid
          O == store[r].user
          C == calls[c].user
          go == GetMutualContacts(O, r)
          gc == GetMutualContacts(C, r)
      IN /\ go.res = "Success"
         /\ gc.res = "Success"
         /\ go.request.requester = Contact(O)
         /\ gc.request.requester = Contact(O)
         /\ go.request.donor = gc.request.donor
         /\ go.request.donor # Null
         /\ go.request.donor.name = Contact(C).name
         /\ go.request.donor.phone = Contact(C).phone
         /\ go.request.donor.email = Contact(C).email
         /\ \A t \in Users \ {O, C} : GetMutualContacts(t, r).res = "Forbidden"

\* The contact values of user u: profile name, phone and email.
RealContact(u) == {userDir[u].name, userDir[u].phone, userDir[u].email} \ {NoPhone}

\* Some read path returns to the viewer, for stored request r, a field that
\* holds the owner's profile name, phone or email or the phone of the request.
SeesOwnerContact(viewer, r) ==
  LET real == (RealContact(store[r].user) \cup {store[r].phone}) \ {NoPhone}
      g == Get(viewer, r)
      m == GetMutualContacts(viewer, r)
  IN \/ /\ r \in DOMAIN List(viewer)
        /\ {List(viewer)[r].name, List(viewer)[r].phone} \cap real # {}
     \/ /\ g.res = "Success"
        /\ {g.request.user.name, g.request.user.phone, g.request.user.email,
            g.request.name, g.request.phone} \cap real # {}
     \/ /\ r \in DOMAIN PublicBlood(viewer)
        /\ {PublicBlood(viewer)[r].name, PublicBlood(viewer)[r].phone,
            PublicBlood(viewer)[r].user.name} \cap real # {}
     \/ /\ r \in DOMAIN Accepted(viewer)
        /\ {Accepted(viewer)[r].name, Accepted(viewer)[r].phone,
            Accepted(viewer)[r].requester.name,
            Accepted(viewer)[r].requester.email} \cap real # {}
     \/ /\ r \in DOMAIN BloodAccepted(viewer)
        /\ {BloodAccepted(viewer)[r].requester.name,
            BloodAccepted(viewer)[r].requester.phone,
            BloodAccepted(viewer)[r].requester.email} \cap real # {}
     \/ /\ m.res = "Success"
        /\ {m.request.requester.name, m.request.requester.phone,
            m.request.requester.email} \cap real # {}

\* Some read path returns to the viewer, for stored request r, a field that
\* holds the profile name, phone or email of one of its accepters.
SeesAccepterContact(viewer, r) ==
  LET real == UNION {RealContact(store[r].accepters[i].user) : i \in DOMAIN store[r].accepters}
      a == GetAccepters(viewer, r)
      m == GetMutualContacts(viewer, r)
      shown(d) == d # Null /\ {d.name, d.phone, d.email} \cap real # {}
  IN \/ /\ r \in DOMAIN List(viewer)
        /\ \E i \in DOMAIN List(viewer)[r].accepters :
             shown(List(viewer)[r].accepters[i].user)
     \/ /\ r \in DOMAIN BloodAccepted(viewer)
        /\ shown(BloodAccepted(viewer)[r].donor)
     \/ /\ a.res = "Success"
        /\ \E i \in DOMAIN a.accepters : shown(a.accepters[i].user)
     \/ /\ m.res = "Success"
        /\ shown(m.request.donor)

\* C24: over all read paths (List, Get, public listing, accepted listings,
\* GetAccepters, GetMutualContacts), a viewer who is not the owner of a request
\* is given the owner's unredacted contact fields only if that viewer is an
\* accepter of the request, and a viewer is given an accepter's unredacted
\* contact fields only if the viewer is the owner or an accepter.
C24_NoPrematureDisclosure ==
  \A viewer \in Users, r \in DOMAIN store :
    /\ SeesOwnerContact(viewer, r) =>
         (viewer = store[r].user \/ IsAccepter(store[r], viewer))
    /\ SeesAccepterContact(viewer, r) =>
         (viewer = store[r].user \/ IsAccepter(store[r], viewer))

\* C25 (P6): redaction is idempotent: for every stored request with its
\* accepters and every viewer, redacting the viewer's view once more gives the
\* same view.
C25_RedactionIdempotent ==
  \A viewer \in Users, r \in DOMAIN store :
    LET v == FilterRequest(store[r], viewer)
    IN Redact(v, viewer) = v

C25_Witness ==
  \E viewer \in Users, r \in DOMAIN store :
    /\ viewer # store[r].user
    /\ store[r].accepters # <<>>
    /\ ~IsAccepter(store[r], viewer)
    /\ FilterRequest(store[r], viewer) # PopulateAccepters(store[r])
    /\ FilterRequest(store[r], viewer).accepters[1].user.name = Hidden
    /\ Redact(FilterRequest(store[r], viewer), viewer) = FilterRequest(store[r], viewer)

\* C26: redaction removes no field: the view of a request for a viewer who is
\* neither owner nor accepter has the same fields as the owner's view, among
\* them name, phone and email of the owner and of each accepter, and differs
\* from it only in contact fields, which hold the placeholder.
C26_RedactionKeepsFields ==
  \A viewer \in Users, r \in DOMAIN store :
    (viewer # store[r].user /\ ~IsAccepter(store[r], viewer)) =>
      LET v == FilterRequest(store[r], viewer)
          o == FilterRequest(store[r], store[r].user)
      IN /\ DOMAIN v = DOMAIN o
         /\ {"name", "phone", "email"} \subseteq DOMAIN v
         /\ \A f \in (DOMAIN v \cap DOMAIN o) \ {"accepters"} :
              v[f] # o[f] => (f \in {"name", "phone", "email"} /\ v[f] = Hidden)
         /\ DOMAIN v.accepters = DOMAIN o.accepters
         /\ \A i \in DOMAIN v.accepters :
              /\ DOMAIN v.accepters[i] = DOMAIN o.accepters[i]
              /\ DOMAIN v.accepters[i].user = DOMAIN o.accepters[i].user
              /\ {"name", "phone", "email"} \subseteq DOMAIN v.accepters[i].user
              /\ \A f \in {"name", "phone", "email"} : v.accepters[i].user[f] = Hidden

\* C27: GetAccepters answers NotFound on an absent request, Forbidden to every
\* viewer other than the owner, accepters included, and gives the owner every
\* acceptance record of the request, each with its user's unredacted contact,
\* its acceptedAt and its status.
C27_AcceptersForOwnerOnly ==
  \A viewer \in Users, r \in RequestIds :
    LET d == FindById(r)
        g == GetAccepters(viewer, r)
    IN /\ d = Null => g.res = "NotFound"
       /\ (d # Null /\ viewer # d.user) => g.res = "Forbidden"
       /\ (d # Null /\ viewer = d.user) =>
            /\ g.res = "Success"
            /\ Len(g.accepters) = Len(d.accepters)
            /\ \A i \in DOMAIN d.accepters :
                 LET u == d.accepters[i].user
                 IN /\ g.accepters[i].user.id = u
                    /\ g.accepters[i].user.name = userDir[u].name
                    /\ g.accepters[i].user.phone = userDir[u].phone
                    /\ g.accepters[i].user.email = userDir[u].email
                    /\ g.accepters[i].acceptedAt = d.accepters[i].acceptedAt
                    /\ g.accepters[i].status = d.accepters[i].status

C27_Witness ==
  \E viewer \in Users, r \in DOMAIN store :
    /\ IsAccepter(store[r], viewer)
    /\ GetAccepters(viewer, r).res = "Forbidden"
    /\ GetAccepters(store[r].user, r).res = "Success"
    /\ GetAccepters(store[r].user, r).accepters[1].user.email = userDir[viewer].email

\* C28: Get answers NotFound when the request is absent, Forbidden when the
\* viewer has the role citizen and is not the owner, and succeeds otherwise:
\* the owner and the viewers with role volunteer or admin are never refused.
C28_GetCheckOrder ==
  \A viewer \in Users, r \in RequestIds :
    LET d == FindById(r)
        res == Get(viewer, r).res
    IN /\ d = Null => res = "NotFound"
       /\ (d # Null /\ userDir[viewer].role = "citizen" /\ viewer # d.user)
            => res = "Forbidden"
       /\ (d # Null /\ (viewer = d.user \/ userDir[viewer].role \in {"volunteer", "admin"}))
            => res = "Success"

C28_Witness ==
  \E r \in DOMAIN store :
    /\ store[r].user = "u2"
    /\ userDir["u1"].role = "citizen"
    /\ Get("u1", r).res = "Forbidden"
    /\ Get("u2", r).res = "Success"
    /\ userDir["u3"].role = "admin"
    /\ Get("u3", r).res = "Success"

\* C29: every item List returns satisfies the filters given: its type is the
\* type asked for, its status is one of the statuses asked for; and the items
\* come by createdAt descending by default and for an unrecognised sort, by
\* createdAt ascending for oldest, by updatedAt descending for updated.
C29_ListFilterAndOrder ==
  listed # NoList =>
    LET q == listed.query
        items == listed.requests
    IN /\ \A i \in DOMAIN items :
            /\ q.type = "blood" => items[i].type = "blood"
            /\ q.status = "pending" => items[i].status = "pending"
            /\ q.status = "accepted, resolved" => items[i].status \in {"accepted", "resolved"}
            /\ items[i] = FilterRequest(store[listed.ids[i]], listed.user)
       /\ \A i, j \in DOMAIN items :
            i < j =>
              IF q.sortBy = "oldest" THEN items[i].createdAt <= items[j].createdAt
              ELSE IF q.sortBy = "updated" THEN items[i].updatedAt >= items[j].updatedAt
              ELSE items[i].createdAt >= items[j].createdAt

C29_Witness ==
  /\ listed # NoList
  /\ listed.query.sortBy = "updated"
  /\ listed.query.status = "accepted, resolved"
  /\ listed.query.type = "blood"
  /\ Len(listed.requests) = 2
  /\ listed.requests[1].updatedAt > listed.requests[2].updatedAt
  /\ listed.requests[1].createdAt < listed.requests[2].createdAt

\* C30: for page p and page size s over T matching requests, List skips the
\* first (p-1)*s matching items in the order of the sort, returns
\* min(s, max(0, T-(p-1)*s)) items, at most s, and reports totalRequests = T
\* and ceil(T/s) pages.
C30_Pagination ==
  listed # NoList =>
    LET q == listed.query
        p == IF q.page = "2" THEN 2 ELSE 1
        s == IF q.limit = "1" THEN 1 ELSE IF q.limit = "2" THEN 2 ELSE DefaultLimit
        M == ListFind(listed.user, q)
        T == Cardinality(M)
        skipped == IF (p - 1) * s < T THEN (p - 1) * s ELSE T
        left == T - skipped
        got == {listed.ids[i] : i \in DOMAIN listed.ids}
    IN /\ Len(listed.ids) <= s
       /\ Len(listed.ids) = (IF s < left THEN s ELSE left)
       /\ Cardinality(got) = Len(listed.ids)
       /\ got \subseteq M
       /\ \E B \in SUBSET (M \ got) :
            /\ Cardinality(B) = skipped
            /\ \A b \in B, g \in got : Before(q, store[b], store[g])
            /\ \A a \in (M \ got) \ B, g \in got : Before(q, store[g], store[a])
       /\ listed.pagination.current = p
       /\ listed.pagination.count = Len(listed.ids)
       /\ listed.pagination.totalRequests = T
       /\ listed.pagination.total * s >= T
       /\ (listed.pagination.total - 1) * s < T

C30_Witness ==
  /\ listed # NoList
  /\ listed.query.page = "2"
  /\ listed.query.limit = "1"
  /\ listed.query.sortBy = Absent
  /\ listed.pagination.totalRequests = 2
  /\ listed.pagination.total = 2
  /\ listed.ids = <<1>>

\* C31: acceptance records are created only by the write of a successful
\* volunteer call and removed only with their request: every step leaves the
\* accepters of every stored request as they were, except the successful
\* write of a volunteer call on it, which appends the caller's record after
\* those already there, and the successful delete of it, which removes the
\* request. So a request that has accepter X keeps X until it is deleted.
C31_AcceptersOnlyAppendedByVolunteer ==
  [][\A r \in DOMAIN store :
       IF r \in DOMAIN store'
       THEN \/ store'[r].accepters = store[r].accepters
            \/ \E c \in CallIds :
                 /\ WriteStep(c, "volunteer")
                 /\ calls[c].rid = r
                 /\ calls'[c].res = "Success"
                 /\ store'[r].accepters =
                      Append(store[r].accepters, Acceptance(calls[c].user))
       ELSE \E c \in CallIds :
              /\ WriteStep(c, "delete")
              /\ calls[c].rid = r
              /\ calls'[c].res = "Success"]_vars

\* An update has written to a request that has an accepter.
C31_Witness ==
  \E r \in DOMAIN store :
    /\ store[r].accepters = <<Acceptance("u2")>>
    /\ store[r].name = "n2"
    /\ \E c \in CallIds : IsDone(c, "update") /\ calls[c].rid = r /\ calls[c].res = "Success"
    /\ \E c \in CallIds : IsDone(c, "volunteer") /\ calls[c].rid = r /\ calls[c].res = "Success"

\* C32: over the lifetime of a request, in every interleaving, at most one
\* volunteer call commits the write that sets its status to accepted (ids are
\* never reused, so the calls on an id are the calls on one request).
C32_AcceptedCommittedAtMostOnce ==
  \A r \in RequestIds :
    Cardinality({c \in CallIds : /\ IsDone(c, "volunteer")
                                 /\ calls[c].rid = r
                                 /\ calls[c].res = "Success"}) <= 1

\* C33: the only status transition of a successful volunteer call is pending
\* -> accepted: on a blood request whose status is in_progress, resolved,
\* completed or cancelled, a volunteer call is refused at its checks, and the
\* write of a volunteer call neither succeeds nor changes the stored request.
C33_AcceptOnlyFromPending ==
  [][\A c \in CallIds :
       /\ ( /\ ReadStep(c, "volunteer")
            /\ calls'[c].rid \in DOMAIN store
            /\ store[calls'[c].rid].type = "blood"
            /\ store[calls'[c].rid].status \in DownstreamStatuses )
          => /\ calls'[c].pc = "done"
             /\ calls'[c].res # "Success"
       /\ ( /\ WriteStep(c, "volunteer")
            /\ calls[c].rid \in DOMAIN store
            /\ store[calls[c].rid].status \in DownstreamStatuses )
          => /\ calls'[c].res # "Success"
             /\ store' = store]_vars

\* C34: no acceptance is lost or overwritten: from the moment a volunteer
\* call has returned success to candidate C on request R, and for as long as
\* R is stored, R's accepters hold a record of C with status accepted, in
\* every interleaving with other volunteer calls on R.
C34_SuccessfulAcceptanceStaysRecorded ==
  \A c \in CallIds :
    ( /\ IsDone(c, "volunteer")
      /\ calls[c].res = "Success"
      /\ calls[c].rid \in DOMAIN store )
    => \E i \in DOMAIN store[calls[c].rid].accepters :
         /\ store[calls[c].rid].accepters[i].user = calls[c].user
         /\ store[calls[c].rid].accepters[i].status = "accepted"

\* Two racing volunteer calls have both returned success, and both records
\* are stored.
C34_Witness ==
  \E c, d \in CallIds :
    /\ c # d
    /\ IsDone(c, "volunteer") /\ calls[c].res = "Success"
    /\ IsDone(d, "volunteer") /\ calls[d].res = "Success"
    /\ calls[c].rid = calls[d].rid
    /\ calls[c].user # calls[d].user
    /\ calls[c].rid \in DOMAIN store
    /\ Len(store[calls[c].rid].accepters) = 2

\* C35: a call of volunteer, update or delete that answers one of the
\* expected failures (NotFound, Forbidden, WrongType, SelfAcceptance,
\* AlreadyAccepted, NotPending) answers it in the step that made its read,
\* leaving the Request Store exactly as it was; a call that has answered
\* takes no further step (no retry).
C35_FailuresWriteNothing ==
  [][\A c \in CallIds :
       LET ExpectedFailures == {"NotFound", "Forbidden", "WrongType", "SelfAcceptance",
                                "AlreadyAccepted", "NotPending", "NotAccepted",
                                "PhoneRequired"}
       IN /\ ( /\ calls[c].pc # "done"
               /\ calls'[c].pc = "done"
               /\ calls'[c].res \in ExpectedFailures )
             => /\ calls[c].pc = "idle"
                /\ store' = store
                /\ nextId' = nextId
          /\ calls[c].pc = "done" => calls'[c] = calls[c]]_vars

\* A volunteer call that came after another user's acceptance was answered
\* AlreadyAccepted and the single record stored is the other user's.
C35_Witness ==
  \E c \in CallIds :
    /\ IsDone(c, "volunteer")
    /\ calls[c].res = "AlreadyAccepted"
    /\ calls[c].rid \in DOMAIN store
    /\ Len(store[calls[c].rid].accepters) = 1
    /\ store[calls[c].rid].accepters[1].user # calls[c].user
    /\ store[calls[c].rid].status = "accepted"

\* C36: GET / returns only requests owned by the caller: whatever the
\* filters, the sort and the page, every item of the response is a stored
\* request whose owner is the caller, also when the caller is an accepter of
\* a request of another user.
C36_ListOnlyOwnRequests ==
  listed # NoList =>
    \A i \in DOMAIN listed.ids :
      /\ listed.ids[i] \in DOMAIN store
      /\ store[listed.ids[i]].user = listed.user
      /\ listed.requests[i].user = listed.user

\* The caller has listed accepted requests and got one, while being the
\* accepter of another user's request that passes the same filters.
C36_Witness ==
  /\ listed # NoList
  /\ listed.query.status = "accepted, resolved"
  /\ listed.query.type = "blood"
  /\ listed.pagination.count = 1
  /\ \E r \in DOMAIN store :
       /\ store[r].user # listed.user
       /\ IsAccepter(store[r], listed.user)
       /\ store[r].type = "blood"
       /\ store[r].status = "accepted"

\* C37: the public blood listing shown to a viewer holds only requests that
\* are, when it is read, of type blood, pending, without accepter and not
\* owned by the viewer; so a request on which a volunteer call has succeeded
\* is in the public listing of no viewer, and no user finds their own
\* request there.
C37_PublicListingOnlyOpenRequestsOfOthers ==
  \A viewer \in Users :
    /\ \A r \in DOMAIN PublicBlood(viewer) :
         /\ r \in DOMAIN store
         /\ store[r].type = "blood"
         /\ store[r].status = "pending"
         /\ PublicBlood(viewer)[r].status = "pending"
         /\ Len(store[r].accepters) = 0
         /\ store[r].user # viewer
    /\ \A c \in CallIds :
         (IsDone(c, "volunteer") /\ calls[c].res = "Success")
         => calls[c].rid \notin DOMAIN PublicBlood(viewer)

\* A blood request that was accepted and then moved on by the workflow is
\* still stored, and no viewer's public listing holds it.
C37_Witness ==
  \E c \in CallIds :
    /\ IsDone(c, "volunteer")
    /\ calls[c].res = "Success"
    /\ calls[c].rid \in DOMAIN store
    /\ store[calls[c].rid].type = "blood"
    /\ store[calls[c].rid].status = "cancelled"
    /\ \A viewer \in Users : calls[c].rid \notin DOMAIN PublicBlood(viewer)

\* C38: whenever GET /:id/contacts succeeds for a viewer who is not the
\* owner, userRole is donor and the donor returned is the viewer's own
\* acceptance (the viewer's name, phone and email, and the acceptedAt of the
\* viewer's record), never another user's contact: every viewer admitted as
\* accepter is the first element of accepters.
C38_DonorIsTheViewer ==
  \A viewer \in Users, r \in DOMAIN store :
    LET g == GetMutualContacts(viewer, r)
    IN (g.res = "Success" /\ store[r].user # viewer)
       => /\ g.request.userRole = "donor"
          /\ store[r].accepters[1].user = viewer
          /\ g.request.donor =
               Contact(viewer) @@ [acceptedAt |-> store[r].accepters[1].acceptedAt]

\* C39: the volunteer handler never produces the 'already volunteered'
\* outcome: on every stored request and for every caller its checks give
\* another result, a caller who already appears in the accepters is answered
\* AlreadyAccepted by the earlier test, and no call has ever been answered
\* 'already volunteered'.
C39_AlreadyVolunteeredNeverProduced ==
  /\ \A c \in CallIds : calls[c].res # "AlreadyVolunteered"
  /\ \A u \in Users : VolunteerCheck(Null, u) # "AlreadyVolunteered"
  /\ \A u \in Users, r \in DOMAIN store :
       /\ VolunteerCheck(store[r], u) # "AlreadyVolunteered"
       /\ IsAccepter(store[r], u) => VolunteerCheck(store[r], u) = "AlreadyAccepted"

\* A user whose acceptance is stored has volunteered again for the same
\* request and was answered AlreadyAccepted.
C39_Witness ==
  \E c, d \in CallIds :
    /\ c < d
    /\ IsDone(c, "volunteer") /\ calls[c].res = "Success"
    /\ IsDone(d, "volunteer") /\ calls[d].res = "AlreadyAccepted"
    /\ calls[c].rid = calls[d].rid
    /\ calls[c].user = calls[d].user
    /\ calls[c].rid \in DOMAIN store
    /\ IsAccepter(store[calls[c].rid], calls[d].user)

====
